---- MODULE Spec2Model ----
(***************************************************************************)
(* A model of surround's Assembler (src/surround/assembler.py): the        *)
(* composition setters, init_assembler and the run state machine.          *)
(*                                                                         *)
(* Python values are modelled by what the code asks of them: their         *)
(* truthiness (`if x`, `not x`) and the contract they satisfy              *)
(* (isinstance).  Stage instances are ordinary objects and therefore       *)
(* truthy.  A call of run or init_assembler is followed from one stage     *)
(* invocation to the next: pc is the statement the call has reached, and   *)
(* what the user code of the invoked stage does (return, append an error   *)
(* record to the carrier and return, raise) is chosen at each invocation.  *)
(* Calls do not overlap: the assembler is used from one thread.            *)
(***************************************************************************)
EXTENDS Integers, Sequences, FiniteSets, TLC

\* Longest pre-/post-filter list handed to set_estimator.
MaxFilters == 2

None == "None"
\* a falsy value that satisfies no contract (0, "", [])
Zero == "Zero"
\* a truthy object that satisfies no contract
Obj == "Obj"
\* the validator given to the constructor
Val == "Val"
Est == "Est"
Vis == "Vis"
\* the Filter used as finaliser
Fin == "Fin"
\* the Filter classes a pre-filter list and a post-filter list are made of
PreNames == <<"PreA", "PreB", "PreC", "PreD">>
PostNames == <<"PostA", "PostB", "PostC", "PostD">>
FilterNames ==
    {PreNames[i] : i \in DOMAIN PreNames}
        \cup {PostNames[i] : i \in DOMAIN PostNames}

\* Python truthiness of a value: None, 0, "" are falsy, objects are truthy.
Truthy(v) == v \notin {None, Zero}

\* isinstance(v, Filter)
IsFilter(v) == v \in FilterNames \cup {Fin}

\* isinstance(v, Estimator)
IsEstimator(v) == v = Est

\* isinstance(v, Visualiser)
IsVisualiser(v) == v = Vis

\* The configurations: output dumping disabled or enabled.
Configs == {"DumpOff", "DumpOn"}

\* self.config and self.config["surround"]["enable_stage_output_dump"]
DumpEnabled(cfg) == cfg = "DumpOn"

VARIABLES
    config,        \* self.config
    estimator,     \* self.estimator
    pre_filters,   \* self.pre_filters (None and [] are both the empty list)
    post_filters,  \* self.post_filters
    visualiser,    \* self.visualiser
    finaliser,     \* self.finaliser
    batch_mode,    \* self.batch_mode
    call,          \* the call in progress, or else the most recent call:
                   \* its name and its (first) argument
    is_training,   \* the is_training argument of that call (run only)
    pc,            \* the statement that call has reached; "idle": it returned
    batch,         \* in __execute_filters: which list is being executed
    idx,           \* the position in the list being executed or initialised
    start_time,    \* start_time of __execute_filters
    now,           \* datetime.now(), in stage invocations since the call began
    carrier,       \* the data carrier of that call (run only)
    exc,           \* the exception in flight while a finally clause runs
    trace,         \* the stage operations that call has invoked, in order
    raised,        \* the exception that call raised to its caller, or None
    init_failed,   \* the most recent init_assembler ended in its except clause
    init_flag      \* the batch_mode argument of the most recent init_assembler
                   \* (FALSE: it was never called)

fields == <<config, estimator, pre_filters, post_filters, visualiser,
            finaliser, batch_mode>>

vars == <<config, estimator, pre_filters, post_filters, visualiser, finaliser,
          batch_mode, call, is_training, pc, batch, idx, start_time, now,
          carrier, exc, trace, raised, init_failed, init_flag>>

\* A State as its constructor leaves it: no errors, no metadata, thawed.
NewState ==
    [errors |-> 0, stage_metadata |-> <<>>, execution_time |-> <<>>,
     frozen |-> FALSE]

\* What the user code of a filter or an estimator, with its dump_output, can
\* do: return, append an error record and return, raise, or (when
\* dump_output is called at all) return and raise in dump_output.
StageOuts ==
    {"ok", "err", "raise"}
        \cup (IF DumpEnabled(config) THEN {"dumpraise"} ELSE {})

\* What a validator, a visualiser, a finaliser or an initialise can do.
PlainOuts == {"ok", "raise"}

\* The outcome of the stage's operation itself.
OpOut(o) == IF o = "dumpraise" THEN "ok" ELSE o

\* The record of one invocation: the operation, the stage, what its code
\* did, and the carrier's frozen flag and number of error records when it
\* was invoked.
Event(op, stage, out) ==
    [op |-> op, stage |-> stage, out |-> out, frozen |-> carrier.frozen,
     errors |-> carrier.errors]

\* The invocations of a stage operation and its dump_output, when enabled
\* and reached.
Events(op, stage, out) ==
    <<Event(op, stage, OpOut(out))>>
        \o (IF DumpEnabled(config) /\ OpOut(out) # "raise"
            THEN <<[Event("dump_output", stage,
                          IF out = "dumpraise" THEN "raise" ELSE "ok")
                       EXCEPT !.errors = IF out = "err" THEN @ + 1 ELSE @]>>
            ELSE <<>>)

\* Whether the stage's operation or its dump_output raised.
Raises(out) == out \in {"raise", "dumpraise"}

\* The metadata record appended before dump_output is called.
Executed_RecordBeforeDump(s, stage, out, elapsed) ==
    [s EXCEPT
       !.errors = IF out = "err" THEN @ + 1 ELSE @,
       !.stage_metadata =
           IF out = "raise" THEN @
           ELSE Append(@, [name |-> stage, time |-> elapsed])]

\* The carrier after stage.operate / estimate / fit and the rest of
\* __execute_filter / __execute_main / __execute_fit: an error record the
\* user code appended, and the metadata record unless an exception skipped it.
Executed(s, stage, out, elapsed) ==
    [s EXCEPT
       !.errors = IF out = "err" THEN @ + 1 ELSE @,
       !.stage_metadata =
           IF Raises(out) THEN @
           ELSE Append(@, [name |-> stage, time |-> elapsed])]

\* A place of the call: the statement reached and the carrier there.
At(p, b, i, s, t) ==
    [pc |-> p, batch |-> b, idx |-> i, carrier |-> s, start_time |-> t,
     exc |-> None]

Goto(k) ==
    /\ pc' = k.pc
    /\ batch' = k.batch
    /\ idx' = k.idx
    /\ carrier' = k.carrier
    /\ start_time' = k.start_time
    /\ exc' = k.exc

\* The call returned.
Idle(s) == At("idle", "", 0, s, 0)

\* run's `finally:` is reached, with the exception e of the try statement
\* still in flight (None: there is none).
Finally(s, e) == [At("finally", "", 0, s, 0) EXCEPT !.exc = e]

\* The try block of run ended without an exception.
TryDone(s) == Finally(s, None)

\* A run whose exception ends the call at once, the finally clause skipped.
ExceptClause_NoFinally(s, e) == Idle(s)

\* A run without the except clause: e stays in flight through the finally
\* clause.
ExceptClause_Reraise(s, e) == Finally(s, e)

\* run's `except Exception:` caught e: it is logged and dropped, and the
\* finally clause is next.
ExceptClause(s, e) == Finally(s, None)

\* The visualiser step of __run_pipeline is reached.
ToVisualise(s) == At("visualise", "", 0, s, 0)

\* The estimator step of __run_pipeline is reached.
ToEstimator(s) == At("estimator", "", 0, s, 0)

\* The two lists exchanged: the post-filters run before the estimator.
Filters_Swapped(b) == IF b = "pre" THEN post_filters ELSE pre_filters

\* The list a batch executes.
Filters(b) == IF b = "pre" THEN pre_filters ELSE post_filters

\* state.thaw() at the end of __execute_filters, and the statement of
\* __run_pipeline that follows the batch.
LeaveFilters(b, s) ==
    LET thawed == [s EXCEPT !.frozen = FALSE]
    IN  IF b = "pre" THEN ToEstimator(thawed) ELSE ToVisualise(thawed)

\* The elapsed time of the batch added to what the field holds.
EndFilters_Accumulate(b, s, t) ==
    LeaveFilters(b, [s EXCEPT !.execution_time =
                         <<(IF @ = <<>> THEN 0 ELSE @[1]) + t - start_time>>])

\* The end of the try block of __execute_filters (after the loop ended or
\* broke): execution_time is recorded.
EndFilters(b, s, t) ==
    LeaveFilters(b, [s EXCEPT !.execution_time = <<t - start_time>>])

\* state.thaw() as the last statement of the try block: an exception skips it.
FiltersExcept_NoThaw(b, s) ==
    IF b = "pre" THEN ToEstimator(s) ELSE ToVisualise(s)

\* __execute_filters without its try statement: the filter's exception
\* reaches the except clause of run.
FiltersExcept_Propagate(b, s) == ExceptClause(s, b)

\* The except clause of __execute_filters: the exception is logged and
\* dropped, execution_time is not recorded.
FiltersExcept(b, s) == LeaveFilters(b, s)

\* The head of __execute_filters without state.freeze().
EnterFilters_NoFreeze(b, s, t) ==
    IF Filters(b) # <<>>
    THEN At("filter", b, 1, s, t)
    ELSE IF b = "pre" THEN ToEstimator(s) ELSE ToVisualise(s)

\* A batch that is skipped when the carrier already holds errors.
EnterFilters_SkipOnErrors(b, s, t) ==
    IF Filters(b) # <<>> /\ s.errors = 0
    THEN At("filter", b, 1, [s EXCEPT !.frozen = TRUE], t)
    ELSE IF b = "pre" THEN ToEstimator(s) ELSE ToVisualise(s)

\* `if self.pre_filters:` / `if self.post_filters:` and the head of
\* __execute_filters: freeze, start_time.
EnterFilters(b, s, t) ==
    IF Filters(b) # <<>>
    THEN At("filter", b, 1, [s EXCEPT !.frozen = TRUE], t)
    ELSE IF b = "pre" THEN ToEstimator(s) ELSE ToVisualise(s)

\* The loop without its check of state.errors.
FilterDone_NoBreak(b, i, s, t) ==
    IF i < Len(Filters(b)) THEN At("filter", b, i + 1, s, start_time)
    ELSE EndFilters(b, s, t)

\* After filter i of the batch returned: break on state.errors, else the
\* next filter, else the end of the loop.
FilterDone(b, i, s, t) ==
    IF s.errors > 0 THEN EndFilters(b, s, t)
    ELSE IF i < Len(Filters(b)) THEN At("filter", b, i + 1, s, start_time)
    ELSE EndFilters(b, s, t)

\* The state after Assembler.__init__(name, validator, estimator, config)
\* returned: a validator is required, the estimator is optional.
Init ==
    /\ config \in Configs
    /\ estimator \in {None, Est}
    /\ pre_filters = <<>>
    /\ post_filters = <<>>
    /\ visualiser = None
    /\ batch_mode = FALSE
    /\ finaliser = None
    /\ call = [op |-> "__init__", arg |-> Val]
    /\ is_training = FALSE
    /\ pc = "idle"
    /\ batch = ""
    /\ idx = 0
    /\ start_time = 0
    /\ now = 0
    /\ carrier = NewState
    /\ exc = None
    /\ trace = <<>>
    /\ raised = None
    /\ init_failed = FALSE
    /\ init_flag = FALSE

\* A call begins: nothing invoked yet, nothing raised.
Begin(op, arg, training) ==
    /\ call' = [op |-> op, arg |-> arg]
    /\ is_training' = training
    /\ now' = 0
    /\ trace' = <<>>

\* A call that invokes no stage returns or raises exc.
Returns(op, arg, e) ==
    /\ Begin(op, arg, FALSE)
    /\ Goto(Idle(NewState))
    /\ raised' = e
    /\ UNCHANGED <<init_failed, init_flag>>

\* A run without the precondition.
StateRefused_Never(st) == FALSE

\* The precondition of run: `if not state`.
StateRefused(st) == ~Truthy(st)

\* Assembler.run(state, is_training) up to the try statement: a falsy state
\* is refused.
Run ==
    /\ pc = "idle"
    /\ \E st \in {None, "State"}, training \in BOOLEAN :
        /\ Begin("run", st, training)
        /\ IF StateRefused(st)
           THEN /\ Goto(Idle(NewState))
                /\ raised' = "ValueError"
           ELSE /\ Goto(At("validate", "", 0, NewState, 0))
                /\ raised' = None
    /\ UNCHANGED <<fields, init_failed, init_flag>>

\* One more stage invocation in the call in progress.
Step(events) ==
    /\ trace' = trace \o events
    /\ now' = now + Len(events)
    /\ UNCHANGED <<fields, call, is_training, init_flag>>

\* One more stage invocation in a run.
RunStep(events) == Step(events) /\ UNCHANGED init_failed

\* self.validator.validate(self.state, self.config): an exception leaves
\* the try block, otherwise __run_pipeline begins.
Validate ==
    /\ pc = "validate"
    /\ \E out \in PlainOuts :
        /\ RunStep(<<Event("validate", Val, out)>>)
        /\ Goto(IF out = "raise" THEN ExceptClause(carrier, Val)
                ELSE EnterFilters("pre", carrier, now + 1))
    /\ raised' = None

\* One iteration of the loop of __execute_filters: __execute_filter on the
\* next filter of the list, then the check of state.errors.
Filter ==
    /\ pc = "filter"
    /\ \E out \in StageOuts :
        LET stage == Filters(batch)[idx]
            events == Events("operate", stage, out)
            t == now + Len(events)
            s == Executed(carrier, stage, out, t - now)
        IN  /\ RunStep(events)
            /\ Goto(IF Raises(out) THEN FiltersExcept(batch, s)
                    ELSE FilterDone(batch, idx, s, t))
    /\ raised' = None

\* The two branches of `if is_training:` exchanged.
EstimatorOp_Swapped == IF is_training THEN "estimate" ELSE "fit"

\* The operation __run_pipeline calls on the estimator.
EstimatorOp == IF is_training THEN "fit" ELSE "estimate"

\* __execute_fit or __execute_main: an exception (also that of calling a
\* method of None) leaves the try block of run.
Estimate ==
    /\ pc = "estimator"
    /\ IF ~IsEstimator(estimator)
       THEN /\ RunStep(<<>>)
            /\ Goto(ExceptClause(carrier, "AttributeError"))
       ELSE \E out \in StageOuts :
            LET events == Events(EstimatorOp, estimator, out)
                t == now + Len(events)
                s == Executed(carrier, estimator, out, t - now)
            IN  /\ RunStep(events)
                /\ Goto(IF Raises(out) THEN ExceptClause(s, estimator)
                        ELSE EnterFilters("post", s, t))
    /\ raised' = None

\* The visualiser step without the batch-mode flag.
ShouldVisualise_TrainingOnly == is_training /\ Truthy(visualiser)

\* The condition of the visualiser step.
ShouldVisualise == (is_training \/ batch_mode) /\ Truthy(visualiser)

\* The visualiser step, the last of __run_pipeline.
Visualise ==
    /\ pc = "visualise"
    /\ IF ~ShouldVisualise
       THEN /\ RunStep(<<>>)
            /\ Goto(TryDone(carrier))
       ELSE IF ~IsVisualiser(visualiser)
       THEN /\ RunStep(<<>>)
            /\ Goto(ExceptClause(carrier, "AttributeError"))
       ELSE \E out \in PlainOuts :
            /\ RunStep(<<Event("visualise", visualiser, out)>>)
            /\ Goto(IF out = "raise" THEN ExceptClause(carrier, visualiser)
                    ELSE TryDone(carrier))
    /\ raised' = None

\* The finally clause of run: the finaliser, when there is one, is called
\* outside any try block, so its exception is the caller's; otherwise run
\* ends as the try statement did.  An exception is named by the stage whose
\* code raised it.
FinallyClause ==
    /\ pc = "finally"
    /\ IF ~Truthy(finaliser)
       THEN /\ RunStep(<<>>)
            /\ raised' = exc
       ELSE IF ~IsFilter(finaliser)
       THEN /\ RunStep(<<>>)
            /\ raised' = "AttributeError"
       ELSE \E out \in PlainOuts :
            /\ RunStep(<<Event("operate", finaliser, out)>>)
            /\ raised' = IF out = "raise" THEN finaliser ELSE exc
    /\ Goto(Idle(carrier))

\* The estimator initialised before the pre-filters.
InitOrder_EstimatorFirst ==
    <<estimator>> \o pre_filters \o post_filters
        \o (IF Truthy(finaliser) THEN <<finaliser>> ELSE <<>>)

\* The stages init_assembler initialises, in its order.  A falsy finaliser
\* is skipped.
InitOrder ==
    pre_filters \o <<estimator>> \o post_filters
        \o (IF Truthy(finaliser) THEN <<finaliser>> ELSE <<>>)

\* The flag kept once set: a later init_assembler(False) does not clear it.
StoredBatchMode_Sticky(bm) == batch_mode \/ bm

\* `self.batch_mode = batch_mode`
StoredBatchMode(bm) == bm

\* Assembler.init_assembler(batch_mode): the flag is stored first, before
\* the try statement.
InitAssembler ==
    /\ pc = "idle"
    /\ \E bm \in BOOLEAN :
        /\ batch_mode' = StoredBatchMode(bm)
        /\ init_flag' = bm
    /\ init_failed' = FALSE
    /\ Begin("init_assembler", None, FALSE)
    /\ Goto(At("initialise", "", 1, NewState, 0))
    /\ raised' = None
    /\ UNCHANGED <<config, estimator, pre_filters, post_filters, visualiser,
                   finaliser>>

\* init_assembler without its try statement: the exception is the caller's.
InitExcept_Propagate(e) == e

\* init_assembler's `except Exception:`: e is logged and dropped.
InitExcept(e) == None

\* The next stage.initialise(self.config) of init_assembler; an exception
\* (also that of a value without the method) is logged and dropped, and
\* init_assembler returns.
Initialise ==
    /\ pc = "initialise"
    /\ LET stage == InitOrder[idx]
           last == idx = Len(InitOrder)
       IN  IF ~(IsFilter(stage) \/ IsEstimator(stage))
           THEN /\ Step(<<>>)
                /\ Goto(Idle(carrier))
                /\ raised' = InitExcept("AttributeError")
                /\ init_failed' = TRUE
           ELSE \E out \in PlainOuts :
                /\ Step(<<Event("initialise", stage, out)>>)
                /\ Goto(IF out = "raise" \/ last
                        THEN Idle(carrier)
                        ELSE At("initialise", "", idx + 1, carrier, 0))
                /\ raised' = IF out = "raise" THEN InitExcept(stage) ELSE None
                /\ init_failed' = (out = "raise")

\* Assembler.set_config(config)
SetConfig ==
    /\ pc = "idle"
    /\ \E c \in Configs \cup {None, Obj} :
        IF ~Truthy(c) \/ c \notin Configs
        THEN /\ Returns("set_config", c, "TypeError")
             /\ UNCHANGED config
        ELSE /\ Returns("set_config", c, None)
             /\ config' = c
    /\ UNCHANGED <<estimator, pre_filters, post_filters, visualiser,
                   finaliser, batch_mode>>

\* The guard of set_visualiser: `not visualiser and not isinstance(...)`.
VisualiserRejected(v) == ~Truthy(v) /\ ~IsVisualiser(v)

\* Assembler.set_visualiser(visualiser)
SetVisualiser ==
    /\ pc = "idle"
    /\ \E v \in {None, Zero, Obj, Vis} :
        IF VisualiserRejected(v)
        THEN /\ Returns("set_visualiser", v, "TypeError")
             /\ UNCHANGED visualiser
        ELSE /\ Returns("set_visualiser", v, None)
             /\ visualiser' = v
    /\ UNCHANGED <<config, estimator, pre_filters, post_filters, finaliser,
                   batch_mode>>

\* The guard of set_finaliser: `not finaliser and not isinstance(...)`.
FinaliserRejected(f) == ~Truthy(f) /\ ~IsFilter(f)

\* Assembler.set_finaliser(finaliser)
SetFinaliser ==
    /\ pc = "idle"
    /\ \E f \in {None, Zero, Obj, Fin} :
        IF FinaliserRejected(f)
        THEN /\ Returns("set_finaliser", f, "TypeError")
             /\ UNCHANGED finaliser
        ELSE /\ Returns("set_finaliser", f, None)
             /\ finaliser' = f
    /\ UNCHANGED <<config, estimator, pre_filters, post_filters, visualiser,
                   batch_mode>>

\* The lists handed to set_estimator: the first k filters of names, and the
\* same with a value that is no Filter in the last place.
FilterLists(names) ==
    {SubSeq(names, 1, k) : k \in 0..MaxFilters}
        \cup {Append(SubSeq(names, 1, k - 1), Obj) : k \in 1..MaxFilters}

\* Every element of the list is a Filter (None and [] are not looked into).
AllFilters(fs) == \A i \in DOMAIN fs : IsFilter(fs[i])

\* Assembler.set_estimator(estimator, pre_filters, post_filters): each
\* field is assigned as soon as its own check has passed.
SetEstimator ==
    /\ pc = "idle"
    /\ \E e \in {None, Obj, Est} :
        IF e = None
        THEN /\ Returns("set_estimator", e, "ValueError")
             /\ UNCHANGED <<estimator, pre_filters, post_filters>>
        ELSE IF ~IsEstimator(e)
        THEN /\ Returns("set_estimator", e, "TypeError")
             /\ UNCHANGED <<estimator, pre_filters, post_filters>>
        ELSE \E pre \in FilterLists(PreNames), post \in FilterLists(PostNames) :
             IF ~AllFilters(pre)
             THEN /\ Returns("set_estimator", e, "TypeError")
                  /\ estimator' = e
                  /\ UNCHANGED <<pre_filters, post_filters>>
             ELSE IF ~AllFilters(post)
             THEN /\ Returns("set_estimator", e, "TypeError")
                  /\ estimator' = e
                  /\ pre_filters' = pre
                  /\ UNCHANGED post_filters
             ELSE /\ Returns("set_estimator", e, None)
                  /\ estimator' = e
                  /\ pre_filters' = pre
                  /\ post_filters' = post
    /\ UNCHANGED <<config, visualiser, finaliser, batch_mode>>

Next ==
    \/ Run
    \/ Validate
    \/ Filter
    \/ Estimate
    \/ Visualise
    \/ FinallyClause
    \/ InitAssembler
    \/ Initialise
    \/ SetConfig
    \/ SetVisualiser
    \/ SetFinaliser
    \/ SetEstimator

Spec == Init /\ [][Next]_vars

(***************************************************************************)
(* What the claims speak of.                                               *)
(***************************************************************************)

\* The call in progress or last made is a run on a non-null carrier.
InRun == call.op = "run" /\ call.arg # None

\* That run has returned to its caller (normally or with an exception).
RunReturned == InRun /\ pc = "idle"

\* The places of the trace where op was invoked on stage.
Calls(op, stage) ==
    {i \in DOMAIN trace : trace[i].op = op /\ trace[i].stage = stage}

\* The places where an operation of the estimator was invoked.
EstimatorCalls == Calls("estimate", Est) \cup Calls("fit", Est)

\* The places where a filter of a pre- or post-filter list was invoked.
FilterCalls ==
    {i \in DOMAIN trace : trace[i].op = "operate" /\ trace[i].stage # Fin}

\* The invocation at place i returned, and so did the dump_output after it.
Completed(i) ==
    /\ trace[i].out # "raise"
    /\ ~(/\ i < Len(trace)
         /\ trace[i + 1].op = "dump_output"
         /\ trace[i + 1].out = "raise")

\* Some stage other than the finaliser raised in this call.
SomeStageRaised ==
    \E i \in DOMAIN trace : trace[i].out = "raise" /\ trace[i].stage # Fin

\* The validator was invoked and raised.
ValidatorRaised ==
    \E i \in Calls("validate", Val) : trace[i].out = "raise"

\* The validator was invoked and returned.
ValidatorReturned ==
    \E i \in Calls("validate", Val) : trace[i].out # "raise"

\* The composition is one the setters' contracts allow.
ValidComposition ==
    /\ IsEstimator(estimator)
    /\ visualiser = None \/ IsVisualiser(visualiser)
    /\ finaliser = None \/ IsFilter(finaliser)

\* C1 (as claimed): for every valid composition, a run on a non-null carrier
\* returns to its caller without an exception, whatever the stages do.
C1_RunNeverRaises ==
    (RunReturned /\ ValidComposition) => raised = None

\* C2: when a finaliser is set, a run on a non-null carrier invokes the
\* finaliser's operate exactly once, as its last step: not before the run
\* reaches its end, and once when it has returned, whatever the other stages
\* did.
C2_FinaliserExactlyOnce ==
    (InRun /\ IsFilter(finaliser)) =>
        Cardinality(Calls("operate", finaliser)) = IF pc = "idle" THEN 1 ELSE 0

\* C2 witness: a run in which the validator raised has returned, and the
\* finaliser was invoked.
C2_Witness ==
    /\ RunReturned
    /\ IsFilter(finaliser)
    /\ ValidatorRaised
    /\ Calls("operate", finaliser) # {}

\* The visualiser condition of the claim: training or batch mode, and a
\* visualiser is set.
VisualiserWanted == (is_training \/ batch_mode) /\ IsVisualiser(visualiser)

\* The estimator call of this run returned, with its dump_output.
EstimatorCompleted == \E i \in EstimatorCalls : Completed(i)

\* C3 (as claimed): in every run on a non-null carrier, visualise is invoked
\* if and only if (is_training or batch mode) and a visualiser is set.
C3_VisualiseIffCondition ==
    RunReturned => (Calls("visualise", Vis) # {} <=> VisualiserWanted)

\* C3 (amended): visualise is invoked, once, if and only if (is_training or
\* batch mode), a visualiser is set, and the estimator call was reached and
\* returned (so the validator returned too); otherwise it is not invoked.
C3_VisualiseIffReached ==
    RunReturned =>
        /\ Cardinality(Calls("visualise", Vis)) <= 1
        /\ Calls("visualise", Vis) # {}
              <=> (VisualiserWanted /\ EstimatorCompleted)

\* C3 witness: a predict run in batch mode has returned after a post-filter
\* raised, and the visualiser was invoked.
C3_Witness ==
    /\ RunReturned
    /\ ~is_training
    /\ batch_mode
    /\ \E i \in FilterCalls : trace[i].out = "raise"
    /\ Calls("visualise", Vis) # {}

\* C4 (as claimed): in every run on a non-null carrier (of an assembler that
\* has an estimator) exactly one estimator operation is invoked: estimate
\* iff is_training is false, fit iff it is true.
C4_ExactlyOneEstimatorOp ==
    (RunReturned /\ IsEstimator(estimator)) =>
        /\ Cardinality(EstimatorCalls) = 1
        /\ Calls("estimate", Est) # {} <=> ~is_training
        /\ Calls("fit", Est) # {} <=> is_training

\* C4 (amended): at most one estimator operation is invoked in a run, never
\* both; it is estimate only when is_training is false and fit only when it
\* is true; and one is invoked exactly when the validator returned without
\* raising and an estimator is set.
C4_OneEstimatorOpIfValidated ==
    RunReturned =>
        /\ Cardinality(EstimatorCalls) <= 1
        /\ Calls("estimate", Est) # {}
              <=> (~is_training /\ ValidatorReturned /\ IsEstimator(estimator))
        /\ Calls("fit", Est) # {}
              <=> (is_training /\ ValidatorReturned /\ IsEstimator(estimator))

\* C4 witness: a training run in which a pre-filter raised has returned, and
\* fit was invoked.
C4_Witness ==
    /\ RunReturned
    /\ is_training
    /\ \E i \in FilterCalls : trace[i].out = "raise" /\ trace[i].stage = "PreA"
    /\ Calls("fit", Est) # {}

\* The filters of the pre-filter list and of the post-filter list.
PreSet == {pre_filters[k] : k \in DOMAIN pre_filters}
PostSet == {post_filters[k] : k \in DOMAIN post_filters}

\* The finaliser, when one is set, was invoked.
FinaliserRan == IsFilter(finaliser) => Calls("operate", finaliser) # {}

\* Post-filter k was due under the claim: no post-filter before it added an
\* error or raised.
PostFilterDue(k) ==
    \A j \in FilterCalls :
        (\E l \in 1..(k - 1) : trace[j].stage = post_filters[l])
            => (trace[j].out = "ok" /\ Completed(j))

\* C5 (as claimed): if a pre-filter appended an error record without
\* raising, no later pre-filter of the batch executes, the estimator
\* executes, each post-filter executes as long as no post-filter itself adds
\* an error or raises (the estimator having returned), and the finaliser
\* executes.
C5_PreErrorStopsOnlyItsBatch ==
    \A i \in DOMAIN trace :
        (/\ RunReturned
         /\ i \in FilterCalls
         /\ trace[i].stage \in PreSet
         /\ trace[i].out = "err"
         /\ Completed(i))
        => /\ \A j \in FilterCalls : j > i => trace[j].stage \notin PreSet
           /\ EstimatorCalls # {}
           /\ EstimatorCompleted =>
                 \A k \in DOMAIN post_filters :
                     PostFilterDue(k) => Calls("operate", post_filters[k]) # {}
           /\ FinaliserRan

\* C6: when the validator raises, no pre-filter, estimator operation,
\* post-filter or visualiser is invoked in that run: the run is at its
\* finally clause or has returned, the only other invocation is the
\* finaliser's operate, which is made when a finaliser is set, and the
\* validator's exception is not raised to the caller.
C6_ValidatorRaiseGoesToFinaliser ==
    (InRun /\ ValidatorRaised) =>
        /\ pc \in {"finally", "idle"}
        /\ \A i \in DOMAIN trace :
               i > 1 => (trace[i].op = "operate" /\ trace[i].stage = finaliser)
        /\ pc = "idle" => FinaliserRan
        /\ raised # Val

\* C6 witness: a run of a full composition (pre-filters, post-filters, a
\* visualiser that would be due, a finaliser) has returned after the
\* validator raised, with nothing raised to the caller.
C6_Witness ==
    /\ RunReturned
    /\ ValidatorRaised
    /\ pre_filters # <<>>
    /\ post_filters # <<>>
    /\ VisualiserWanted
    /\ Calls("operate", Fin) # {}
    /\ raised = None

\* The names of the stages invoked at the places I of the trace, from place
\* i on, in the order of the invocations.
RECURSIVE StagesFrom(_, _)
StagesFrom(i, I) ==
    IF i > Len(trace) THEN <<>>
    ELSE (IF i \in I THEN <<trace[i].stage>> ELSE <<>>) \o StagesFrom(i + 1, I)

\* The names the metadata records are keyed by, in their order.
MetadataNames ==
    [k \in DOMAIN carrier.stage_metadata |-> carrier.stage_metadata[k].name]

\* The places where a filter of a batch or the estimator was invoked.
StageCalls == FilterCalls \cup EstimatorCalls

\* ... and those where its execution returned.
CompletedStageCalls == {i \in StageCalls : Completed(i)}

\* C7 (as claimed): over a run, stage_metadata gains exactly one record per
\* filter of a batch whose operate was invoked and one per estimator call,
\* keyed by the stage's name, in execution order, and no other record.
C7_RecordPerInvocation ==
    RunReturned => MetadataNames = StagesFrom(1, StageCalls)

\* C7 (amended): at every point of a run, stage_metadata holds exactly one
\* record per filter of a batch and per estimator call whose execution
\* (operate/estimate/fit and, when dumping is enabled, dump_output) returned
\* without raising, keyed by the stage's name, in execution order, and no
\* other record.
C7_RecordPerCompletedStage ==
    InRun => MetadataNames = StagesFrom(1, CompletedStageCalls)

\* C7 witness: a run has returned in which a filter raised and a pre-filter,
\* the estimator and a post-filter were recorded.
C7_Witness ==
    /\ RunReturned
    /\ \E i \in FilterCalls : trace[i].out = "raise"
    /\ Len(MetadataNames) >= 3
    /\ MetadataNames[1] \in PreSet
    /\ MetadataNames[Len(MetadataNames)] \in PostSet

\* C8: whenever a run is not inside a filter batch (before, between and
\* after the batches, and when it has returned) the carrier is thawed,
\* however the batch ended.
C8_ThawedOutsideBatches ==
    (InRun /\ pc # "filter") => ~carrier.frozen

\* C8 witness: a run has returned in which a filter raised on the frozen
\* carrier, and the carrier is thawed.
C8_Witness ==
    /\ RunReturned
    /\ \E i \in FilterCalls : trace[i].out = "raise" /\ trace[i].frozen
    /\ ~carrier.frozen

\* C9: a call of run with a null carrier raises the precondition error at
\* once: no stage is invoked by that call.
C9_NullCarrierFailsFast ==
    (call.op = "run" /\ call.arg = None) =>
        /\ raised = "ValueError"
        /\ pc = "idle"
        /\ trace = <<>>

\* C9 witness: run was called with a null carrier on an assembler with an
\* estimator and a finaliser, and raised.
C9_Witness ==
    /\ call.op = "run"
    /\ call.arg = None
    /\ IsEstimator(estimator)
    /\ IsFilter(finaliser)
    /\ raised = "ValueError"

\* C10 (as claimed): set_visualiser raises for every value that is no
\* Visualiser, set_finaliser for every value that is no Filter, and no
\* wrong-typed value is ever the stored visualiser or finaliser.
C10_SettersRejectWrongTypes ==
    /\ (call.op = "set_visualiser" /\ ~IsVisualiser(call.arg))
           => raised = "TypeError"
    /\ (call.op = "set_finaliser" /\ ~IsFilter(call.arg))
           => raised = "TypeError"
    /\ visualiser = None \/ IsVisualiser(visualiser)
    /\ finaliser = None \/ IsFilter(finaliser)

\* C11: init_assembler raises nothing to its caller, whichever initialise
\* raises and also without an estimator; and a run made after a failed
\* initialisation obeys the rules of every run: a finaliser that is set is
\* invoked once, at the end, and no exception of the validator, a filter,
\* the estimator or the visualiser reaches the caller (only the finaliser's
\* own can).
C11_InitNeverRaisesRunStillWorks ==
    /\ call.op = "init_assembler" => raised = None
    /\ (InRun /\ init_failed) =>
           /\ IsFilter(finaliser) =>
                  Cardinality(Calls("operate", finaliser))
                      = IF pc = "idle" THEN 1 ELSE 0
           /\ raised # None =>
                  /\ pc = "idle"
                  /\ \/ raised = "AttributeError" /\ ~IsFilter(finaliser)
                     \/ /\ raised = finaliser
                        /\ \E i \in Calls("operate", finaliser) :
                               trace[i].out = "raise"

\* C11 witness: after an initialisation that failed, a run in which a stage
\* raised has returned normally with the finaliser invoked.
C11_Witness ==
    /\ RunReturned
    /\ init_failed
    /\ SomeStageRaised
    /\ Calls("operate", Fin) # {}
    /\ raised = None

\* The place of a stage in the order of run: the validator, the pre-filters,
\* the estimator, the post-filters, the visualiser, the finaliser.
Phase(e) ==
    CASE e.op = "validate" -> 1
      [] e.op \in {"operate", "dump_output"} /\ e.stage \in PreSet -> 2
      [] e.stage = Est -> 3
      [] e.op \in {"operate", "dump_output"} /\ e.stage \in PostSet -> 4
      [] e.op = "visualise" -> 5
      [] OTHER -> 6

\* The position of a filter in its list (0 for any other stage).
Position(e) ==
    IF e.stage \in PreSet
    THEN CHOOSE k \in DOMAIN pre_filters : pre_filters[k] = e.stage
    ELSE IF e.stage \in PostSet
    THEN CHOOSE k \in DOMAIN post_filters : post_filters[k] = e.stage
    ELSE 0

\* The places of the stage invocations proper (a dump_output belongs to the
\* invocation before it).
MainCalls == {i \in DOMAIN trace : trace[i].op # "dump_output"}

\* C12: the stage invocations of a run are in one order: the validator
\* first, then the pre-filters in list order, then the estimator call, then
\* the post-filters in list order, then the visualiser, and the finaliser's
\* operate last of all; no stage is invoked twice.
C12_StagesInOrder ==
    InRun =>
        /\ \A i, j \in MainCalls :
               i < j =>
                   \/ Phase(trace[i]) < Phase(trace[j])
                   \/ /\ Phase(trace[i]) = Phase(trace[j])
                      /\ Position(trace[i]) < Position(trace[j])
        /\ trace # <<>> => trace[1].op = "validate"
        /\ (pc = "idle" /\ IsFilter(finaliser)) =>
               /\ trace[Len(trace)].op = "operate"
               /\ trace[Len(trace)].stage = finaliser

\* C12 witness: a run has returned that invoked the validator, two
\* pre-filters, the estimator, two post-filters, the visualiser and the
\* finaliser.
C12_Witness ==
    /\ RunReturned
    /\ Cardinality({i \in FilterCalls : trace[i].stage \in PreSet}) = 2
    /\ Cardinality({i \in FilterCalls : trace[i].stage \in PostSet}) = 2
    /\ EstimatorCalls # {}
    /\ Calls("visualise", Vis) # {}
    /\ Calls("operate", Fin) # {}

\* Filter k of batch b was invoked, or is the next statement of the run.
Invoked(b, k) ==
    \/ Calls("operate", Filters(b)[k]) # {}
    \/ pc = "filter" /\ batch = b /\ idx = k

\* The run reached the batch: the validator returned (pre-filters), the
\* estimator call returned (post-filters).
BatchReached(b) == IF b = "pre" THEN ValidatorReturned ELSE EstimatorCompleted

\* Filter k of batch b returned without raising and the carrier had no error
\* record after it.
CleanReturn(b, k) ==
    \E i \in Calls("operate", Filters(b)[k]) :
        /\ Completed(i)
        /\ trace[i].out = "ok"
        /\ trace[i].errors = 0

\* C13: in a non-empty batch that the run reaches, the first filter is
\* invoked whatever errors the carrier already holds, and filter k+1 is
\* invoked if and only if filter k returned without raising and the carrier's
\* errors were empty after it.
C13_NextFilterIffClean ==
    InRun =>
        \A b \in {"pre", "post"} :
            Filters(b) # <<>> =>
                /\ Invoked(b, 1) <=> BatchReached(b)
                /\ \A k \in 1..(Len(Filters(b)) - 1) :
                       Invoked(b, k + 1) <=> CleanReturn(b, k)

\* C13 witness: a run has returned whose post-filter batch started with an
\* error already on the carrier: its first filter was invoked and returned,
\* its second was not.
C13_Witness ==
    /\ RunReturned
    /\ Len(post_filters) = 2
    /\ \E i \in Calls("operate", post_filters[1]) :
           trace[i].errors > 0 /\ Completed(i)
    /\ Calls("operate", post_filters[2]) = {}

\* The place of the invocation that follows the estimator call at place i
\* (after its dump_output, when enabled).
AfterEstimator(i) == i + (IF DumpEnabled(config) THEN 2 ELSE 1)

\* The first post-filter is what the run does next after the estimator call
\* at place i.
PostBatchNext(i) ==
    \/ /\ AfterEstimator(i) \in DOMAIN trace
       /\ trace[AfterEstimator(i)].op = "operate"
       /\ trace[AfterEstimator(i)].stage = post_filters[1]
    \/ /\ AfterEstimator(i) = Len(trace) + 1
       /\ pc = "filter" /\ batch = "post" /\ idx = 1

\* C14 (as claimed): whenever the estimator operation has been invoked in
\* a run and post-filters exist, the post-filter batch is run, whatever the
\* outcome of the estimator call.
C14_PostBatchAfterAnyEstimatorCall ==
    (RunReturned /\ post_filters # <<>>) =>
        \A i \in EstimatorCalls : Calls("operate", post_filters[1]) # {}

\* C14 (amended): when the estimator call returned without raising and
\* post-filters exist, the first post-filter is invoked next, whatever
\* errors the carrier holds; when the estimator call raised, no post-filter
\* is invoked.
C14_PostBatchAfterEstimatorReturn ==
    (InRun /\ post_filters # <<>>) =>
        \A i \in EstimatorCalls :
            IF Completed(i) THEN PostBatchNext(i)
            ELSE \A j \in FilterCalls : trace[j].stage \notin PostSet

\* C14 witness: a run has returned in which the estimator appended an error
\* record and returned, and the first post-filter was invoked after it.
C14_Witness ==
    /\ RunReturned
    /\ post_filters # <<>>
    /\ \E i \in EstimatorCalls :
           /\ trace[i].out = "err"
           /\ Completed(i)
           /\ AfterEstimator(i) \in Calls("operate", post_filters[1])

\* An init_assembler call is in progress or was the last call.
InInit == call.op = "init_assembler"

\* The stages whose initialise was invoked, as invoked.
Initialised == [i \in DOMAIN trace |-> trace[i].stage]

\* The order the claim states: the pre-filters, the estimator, the
\* post-filters, the finaliser if one is set.
ClaimedInitOrder ==
    pre_filters \o <<estimator>> \o post_filters
        \o (IF finaliser # None THEN <<finaliser>> ELSE <<>>)

\* C15 (as claimed): for a valid composition, when init_assembler has
\* returned, initialise was invoked exactly once on every pre-filter, then
\* the estimator, then every post-filter, then the finaliser if set.
C15_InitialisesEveryStage ==
    (InInit /\ pc = "idle" /\ ValidComposition) =>
        Initialised = ClaimedInitOrder

\* C15 (amended): init_assembler invokes initialise and nothing else, on
\* the stages in the claimed order, each at most once, and stops at the first
\* initialise that raises (or at a stage that has no such method); when none
\* raises, every stage is initialised exactly once.
C15_InitialisesInOrderUntilRaise ==
    InInit =>
        /\ \A i \in DOMAIN trace : trace[i].op = "initialise"
        /\ Len(trace) <= Len(ClaimedInitOrder)
        /\ Initialised = SubSeq(ClaimedInitOrder, 1, Len(trace))
        /\ \A i \in DOMAIN trace : trace[i].out = "raise" => i = Len(trace)
        /\ pc = "idle" =>
               \/ Len(trace) = Len(ClaimedInitOrder)
               \/ trace # <<>> /\ trace[Len(trace)].out = "raise"
               \/ LET next == ClaimedInitOrder[Len(trace) + 1]
                  IN  ~(IsFilter(next) \/ IsEstimator(next))
        /\ (pc = "idle" /\ ~init_failed) =>
               Len(trace) = Len(ClaimedInitOrder)

\* C15 witness: init_assembler has returned after initialising two
\* pre-filters, the estimator, two post-filters and the finaliser.
C15_Witness ==
    /\ InInit /\ pc = "idle" /\ ~init_failed
    /\ Len(pre_filters) = 2 /\ Len(post_filters) = 2 /\ finaliser = Fin
    /\ Len(trace) = 6

\* C16: in every state reached by init_assembler, setter and run calls the
\* stored batch-mode flag is the value passed to the most recent
\* init_assembler call (false before the first), also after an initialisation
\* that failed; and a predict run that reaches the visualiser step with a
\* visualiser set invokes it if and only if that value is true.
C16_FlagOfLastInit ==
    /\ batch_mode = init_flag
    /\ (RunReturned /\ ~is_training /\ IsVisualiser(visualiser)
            /\ EstimatorCompleted) =>
           (Calls("visualise", Vis) # {} <=> init_flag)

\* C16 witness: a predict run after an init_assembler(True) that failed
\* part-way has returned, and it invoked the visualiser.
C16_Witness ==
    /\ RunReturned
    /\ ~is_training
    /\ init_failed
    /\ init_flag
    /\ Calls("visualise", Vis) # {}

\* The invocations made by the filters of batch b (operate and dump_output).
BatchEvents(b) ==
    {i \in DOMAIN trace :
        /\ trace[i].op \in {"operate", "dump_output"}
        /\ trace[i].stage \in (IF b = "pre" THEN PreSet ELSE PostSet)}

\* Batch b ran; a filter of it raised.
BatchRan(b) == BatchEvents(b) # {}
BatchRaised(b) == \E i \in BatchEvents(b) : trace[i].out = "raise"

\* The elapsed time of batch b: one tick of the clock per invocation.
Elapsed(b) == <<Cardinality(BatchEvents(b))>>

\* C17 (as claimed): every batch that runs overwrites execution_time: after
\* a run in which the post-filter batch ran the field holds that batch's
\* elapsed time, and after one in which only the pre-filter batch ran, the
\* pre-filter batch's.
C17_LastBatchOverwrites ==
    RunReturned =>
        /\ BatchRan("post") => carrier.execution_time = Elapsed("post")
        /\ (BatchRan("pre") /\ ~BatchRan("post")) =>
               carrier.execution_time = Elapsed("pre")

\* C17 (amended): a batch overwrites execution_time unless one of its
\* filters raised: after a run the field holds the elapsed time of the last
\* batch that ran without a raise (never a sum), and is as the caller passed
\* it when there is none.
C17_LastUnraisedBatchOverwrites ==
    RunReturned =>
        carrier.execution_time =
            IF BatchRan("post") /\ ~BatchRaised("post") THEN Elapsed("post")
            ELSE IF BatchRan("pre") /\ ~BatchRaised("pre") THEN Elapsed("pre")
            ELSE NewState.execution_time

\* C17 witness: a run has returned in which both batches ran without a
\* raise and took different times; the field holds the post-filter batch's.
C17_Witness ==
    /\ RunReturned
    /\ BatchRan("pre") /\ ~BatchRaised("pre")
    /\ BatchRan("post") /\ ~BatchRaised("post")
    /\ Elapsed("pre") # Elapsed("post")
    /\ carrier.execution_time = Elapsed("post")

\* C18: in a run on a thawed carrier, a stage is invoked on a frozen
\* carrier if and only if it is a filter of the pre- or post-filter batch
\* (its operate or its dump_output): the validator, the estimator, the
\* visualiser and the finaliser are invoked on a thawed carrier; and the
\* carrier is frozen exactly while the run is inside a batch.
C18_FrozenExactlyInBatches ==
    InRun =>
        /\ \A i \in DOMAIN trace :
               trace[i].frozen
                   <=> i \in BatchEvents("pre") \cup BatchEvents("post")
        /\ carrier.frozen <=> pc = "filter"

\* C18 witness: a run has returned that invoked the validator, a pre-filter
\* that raised, the estimator, a post-filter, the visualiser and the
\* finaliser.
C18_Witness ==
    /\ RunReturned
    /\ BatchRaised("pre")
    /\ EstimatorCompleted
    /\ BatchRan("post")
    /\ Calls("visualise", Vis) # {}
    /\ Calls("operate", Fin) # {}

\* The places where the validator's or the estimator's code raised (the
\* estimator's dump_output included).
PipelineRaises ==
    {i \in DOMAIN trace :
        trace[i].out = "raise" /\ trace[i].stage \in {Val, Est}}

\* C19: a filter that raises ends its batch and only its batch: no later
\* filter of that batch is invoked; after a raising pre-filter the estimator
\* is invoked (and the post-filter batch after it, when the estimator call
\* returns); after a raising post-filter visualise is invoked exactly when
\* its condition holds.  After a raise of the validator or of the estimator
\* call nothing but the finaliser's operate is invoked.
C19_FilterRaiseEndsOnlyItsBatch ==
    RunReturned =>
        /\ \A b \in {"pre", "post"} :
               \A i, j \in BatchEvents(b) :
                   trace[i].out = "raise" => j <= i
        /\ (BatchRaised("pre") /\ IsEstimator(estimator)) =>
               /\ EstimatorCalls # {}
               /\ (EstimatorCompleted /\ post_filters # <<>>)
                      => BatchRan("post")
        /\ BatchRaised("post") =>
               (Calls("visualise", Vis) # {} <=> VisualiserWanted)
        /\ \A i \in PipelineRaises :
               /\ \A j \in DOMAIN trace :
                      j > i => /\ trace[j].op = "operate"
                               /\ trace[j].stage = finaliser
               /\ FinaliserRan

\* C19 witness: a run has returned in which the first of two pre-filters
\* raised, the estimator call returned, the first of two post-filters raised
\* and the visualiser was invoked.
C19_Witness ==
    /\ RunReturned
    /\ Len(pre_filters) = 2 /\ Len(post_filters) = 2
    /\ \E i \in Calls("operate", pre_filters[1]) : trace[i].out = "raise"
    /\ EstimatorCompleted
    /\ \E i \in Calls("operate", post_filters[1]) : trace[i].out = "raise"
    /\ Calls("visualise", Vis) # {}

\* A run has returned in which the estimator raised after a pre-filter had
\* raised, and the finaliser was invoked.
C19_EstimatorRaised ==
    /\ RunReturned
    /\ BatchRaised("pre")
    /\ \E i \in EstimatorCalls : trace[i].out = "raise"
    /\ Calls("operate", Fin) # {}

\* C20 (as claimed): a set_estimator call that is rejected leaves the
\* stored estimator, pre-filter list and post-filter list as they were
\* before the call.
C20_RejectedSetEstimatorChangesNothing ==
    [][(call'.op = "set_estimator" /\ raised' # None)
           => UNCHANGED <<estimator, pre_filters, post_filters>>]_vars

====
